---- MODULE Spec2Model ----
(***************************************************************************)
(* Model of release.go: the release-note generator.  One run of main() is  *)
(* a sequential program; the state is main's locals and the flag globals,  *)
(* the environment is the GitHub API (the list of closed pull requests,    *)
(* the labels of each pull request, and whether each call succeeds).       *)
(*                                                                         *)
(* Times are natural numbers (a later instant is a larger number) and a    *)
(* nil *time.Time is NULL.  A pull request is a record                     *)
(*   [number, merged, updated]   with merged = NULL when it is not merged. *)
(* A line of the note buffer is modelled by the number of the pull request *)
(* it was formatted from (the "#%d" of the line).                          *)
(***************************************************************************)
EXTENDS Integers, Sequences, FiniteSets, TLC

\* ------------------------------------------------------------------ bounds
\* Free lists: at most MaxPRs pull requests, times in 1..MaxTime.
MaxPRs == 3
MaxTime == 3
\* Longest list of the runs that vary every flag.
MaxUsagePRs == 2
\* Latest update time of a pull request of the five-PR scenario.
MaxUpdate == 5
\* Longest label list the API returns for one pull request.
MaxLabels == 1
\* A page size smaller than PerPage, so that a short list spans several pages.
SmallPage == 2

\* ------------------------------------------------------- program constants
NULL == 0
PerPage == 100

LabelNames == {"release-note", "release-note-none"}

VARIABLES
    api,                    \* the closed PRs the API lists, updated-descending
    pageCap,                \* number of PRs the API puts on one page
    last, current, token, relnoteFilter, releaseName, tagName,   \* flags
    pc,                     \* position in main
    page,                   \* opts.Page
    done, prs, lastVersionMerged, currentVersionMerged,
    ix,                     \* position of the range loop over prs
    buffer,                 \* the note lines written so far
    calls,                  \* the API calls made so far, in order
    shown,                  \* the number fmt.Println(current) wrote, NULL if none
    printed,                \* the notes block has been written to stdout
    exitCode                \* process exit status, -1 while running

vars == <<api, pageCap, last, current, token, relnoteFilter, releaseName,
          tagName, pc, page, done, prs, lastVersionMerged,
          currentVersionMerged, ix, buffer, calls, shown, printed, exitCode>>

flags == <<last, token, relnoteFilter, releaseName, tagName>>
world == <<api, pageCap>>

\* ----------------------------------------------------------------- helpers
Min(a, b) == IF a < b THEN a ELSE b

Range(s) == {s[k] : k \in 1..Len(s)}

\* time.Time.Before / After
Before(t, u) == t < u
After(t, u) == t > u

\* byMerged.Less
LessDescending(a, b) == After(a.merged, b.merged)
Less(a, b) == Before(a.merged, b.merged)

\* What sort.Sort(byMerged(prs)) may leave in prs: a permutation of prs in
\* which no element is Less than an earlier one.  sort.Sort is not stable, so
\* elements with equal merge times may end in any order.
IndexPerms(n) == {f \in [1..n -> 1..n] : \A a, b \in 1..n : a # b => f[a] # f[b]}

SortByMerged(s) ==
    {t \in {[k \in 1..Len(s) |-> s[f[k]]] : f \in IndexPerms(Len(s))} :
        \A a, b \in 1..Len(t) : a < b => ~Less(t[b], t[a])}

\* client.PullRequests.List for opts.Page = p
List(p) ==
    LET sz == Min(PerPage, pageCap)
        lo == (p - 1) * sz + 1
        hi == Min(p * sz, Len(api))
    IN  IF lo > Len(api) THEN <<>> ELSE SubSeq(api, lo, hi)

\* The label lists client.Issues.ListLabelsByIssue may return: label names
\* without repetition.
LabelLists ==
    UNION {{l \in [1..n -> LabelNames] : \A a, b \in 1..n : a # b => l[a] # l[b]} :
             n \in 0..MaxLabels}

Call(kind, arg, ok, labels) == [api |-> kind, arg |-> arg, ok |-> ok, labels |-> labels]

\* fmt.Fprintf(buffer, "   * %s (#%d, @%s)\n", ...)
Line(pr) == pr.number

\* ------------------------------------------------------------ main's tests
\* last == 0 || token == ""
UsageErrorBoth == last = 0 /\ token = ""
UsageError == last = 0 \/ token = ""

\* tagName == "" || releaseName == ""
ReleaseUsageErrorBoth == tagName = "" /\ releaseName = ""
ReleaseUsageError == tagName = "" \/ releaseName = ""

\* err != nil, for a call whose outcome is ok
ErrIgnored(ok) == FALSE
ErrNotNil(ok) == ~ok

\* current = *results[0].Number
LastNumber(results) == results[Len(results)].number
FirstNumber(results) == results[1].number

\* lastVersionMerged.Before(*pr.MergedAt)
AfterLast(pr) == Before(lastVersionMerged, pr.merged)

\* pr.MergedAt.Before(*currentVersionMerged)
BeforeCurrentOrEqual(pr) == ~After(pr.merged, currentVersionMerged)
BeforeCurrent(pr) == Before(pr.merged, currentVersionMerged)

\* *label.Name == "release-note"
IsAnyLabel(name) == TRUE
IsReleaseNote(name) == name = "release-note"

\* The lines the label loop writes for pr: one for each label that matches.
RECURSIVE LabelLines(_, _, _)
LabelLines(pr, labels, k) ==
    IF k > Len(labels) THEN <<>>
    ELSE (IF IsReleaseNote(labels[k]) THEN <<Line(pr)>> ELSE <<>>)
         \o LabelLines(pr, labels, k + 1)

\* The loop over one page, from element k on.  st holds the locals the loop
\* changes: prs, lastVersionMerged (lvm), currentVersionMerged (cvm), done.
RECURSIVE Scan(_, _, _, _)
Scan(results, k, cur, st) ==
    IF k > Len(results) THEN st
    ELSE LET result == results[k] IN
         IF result.merged = NULL
           THEN Scan(results, k + 1, cur, st)                  \* continue
         ELSE IF result.number = last
           THEN [st EXCEPT !.lvm = result.merged]              \* break
         ELSE IF st.lvm # NULL /\ After(st.lvm, result.updated)
           THEN [st EXCEPT !.done = TRUE]                      \* break
         ELSE Scan(results, k + 1, cur,
                   [st EXCEPT !.cvm = IF result.number = cur
                                        THEN result.merged ELSE @,
                              !.prs = Append(@, result)])

\* ----------------------------------------------------------------- actions
\* os.Exit(code), or a run-time panic (code 2)
Exit(code) == pc' = "exited" /\ exitCode' = code

\* flag.Parse() has run; the usage check.
Parse ==
    /\ pc = "parse"
    /\ IF UsageError THEN Exit(1) ELSE pc' = "fetch" /\ exitCode' = exitCode
    /\ UNCHANGED <<world, flags, current, page, done, prs, lastVersionMerged,
                   currentVersionMerged, ix, buffer, calls, shown, printed>>

\* One iteration of "for !done": fetch the next page and scan it.
FetchPage ==
    /\ pc = "fetch"
    /\ ~done
    /\ page' = page + 1
    /\ \E ok \in BOOLEAN :
         LET results == IF ok THEN List(page') ELSE <<>>
             cur == IF current = 0 THEN FirstNumber(results) ELSE current
             st == Scan(results, 1, cur,
                        [prs |-> prs, lvm |-> lastVersionMerged,
                         cvm |-> currentVersionMerged, done |-> FALSE])
         IN  /\ calls' = Append(calls, Call("List", page', ok, <<>>))
             /\ IF ErrNotNil(ok)
                  THEN /\ Exit(1)
                       /\ UNCHANGED <<current, shown, done, prs,
                                      lastVersionMerged, currentVersionMerged>>
                ELSE IF Len(results) = 0
                  THEN /\ done' = TRUE
                       /\ pc' = "sort"
                       /\ UNCHANGED <<current, shown, prs, lastVersionMerged,
                                      currentVersionMerged, exitCode>>
                ELSE /\ current' = cur
                     /\ shown' = IF current = 0 THEN cur ELSE shown
                     /\ prs' = st.prs
                     /\ lastVersionMerged' = st.lvm
                     /\ currentVersionMerged' = st.cvm
                     /\ done' = st.done
                     /\ pc' = IF st.done THEN "sort" ELSE "fetch"
                     /\ exitCode' = exitCode
    /\ UNCHANGED <<world, flags, ix, buffer, printed>>

\* sort.Sort(byMerged(prs)); buffer := &bytes.Buffer{}
SortPRs ==
    /\ pc = "sort"
    /\ prs' \in SortByMerged(prs)
    /\ ix' = 1
    /\ buffer' = <<>>
    /\ pc' = "filter"
    /\ UNCHANGED <<world, flags, current, page, done, lastVersionMerged,
                   currentVersionMerged, calls, shown, printed, exitCode>>

\* One iteration of "for _, pr := range prs".
FilterStep ==
    /\ pc = "filter"
    /\ ix <= Len(prs)
    /\ LET pr == prs[ix]
           skip == /\ ix' = ix + 1
                   /\ UNCHANGED <<pc, buffer, calls, exitCode>>
           panic == /\ Exit(2)
                    /\ UNCHANGED <<ix, buffer, calls>>
       IN  IF lastVersionMerged = NULL THEN panic       \* nil dereference
           ELSE IF ~AfterLast(pr) THEN skip
           ELSE IF currentVersionMerged = NULL THEN panic   \* nil dereference
           ELSE IF ~BeforeCurrent(pr) THEN skip
           ELSE IF ~relnoteFilter
             THEN /\ buffer' = Append(buffer, Line(pr))
                  /\ ix' = ix + 1
                  /\ UNCHANGED <<pc, calls, exitCode>>
           ELSE \E ok \in BOOLEAN : \E answer \in LabelLists :
                  LET labels == IF ok THEN answer ELSE <<>> IN
                  /\ ok \/ answer = <<>>
                  /\ calls' = Append(calls,
                                Call("ListLabelsByIssue", pr.number, ok, labels))
                  /\ IF ErrNotNil(ok)
                       THEN Exit(1) /\ UNCHANGED <<ix, buffer>>
                       ELSE /\ buffer' = buffer \o LabelLines(pr, labels, 1)
                            /\ ix' = ix + 1
                            /\ UNCHANGED <<pc, exitCode>>
    /\ UNCHANGED <<world, flags, current, page, done, prs, lastVersionMerged,
                   currentVersionMerged, shown, printed>>

\* The notes block is printed; the release usage check.
PrintNotes ==
    /\ pc = "filter"
    /\ ix > Len(prs)
    /\ printed' = TRUE
    /\ IF ReleaseUsageError THEN Exit(1) ELSE pc' = "release" /\ exitCode' = exitCode
    /\ UNCHANGED <<world, flags, current, page, done, prs, lastVersionMerged,
                   currentVersionMerged, ix, buffer, calls, shown>>

\* client.Repositories.CreateRelease with the buffer as body
CreateRelease ==
    /\ pc = "release"
    /\ \E ok \in BOOLEAN :
         /\ calls' = Append(calls, Call("CreateRelease", Len(buffer), ok, <<>>))
         /\ IF ErrNotNil(ok) THEN Exit(1) ELSE Exit(0)
    /\ UNCHANGED <<world, flags, current, page, done, prs, lastVersionMerged,
                   currentVersionMerged, ix, buffer, shown, printed>>

Next == Parse \/ FetchPage \/ SortPRs \/ FilterStep \/ PrintNotes \/ CreateRelease

\* ------------------------------------------------------------------ inputs
\* The state of main's locals when flag.Parse() returns.
Locals ==
    /\ pc = "parse"
    /\ page = 0
    /\ done = FALSE
    /\ prs = <<>>
    /\ lastVersionMerged = NULL
    /\ currentVersionMerged = NULL
    /\ ix = 1
    /\ buffer = <<>>
    /\ calls = <<>>
    /\ shown = NULL
    /\ printed = FALSE
    /\ exitCode = -1

\* A list the API may hold: sorted by update time, latest first, no pull
\* request merged after its last update, no number twice.
WellFormed(l) ==
    /\ \A k \in 1..Len(l) : l[k].merged <= l[k].updated
    /\ \A a, b \in 1..Len(l) : a < b => l[a].updated >= l[b].updated
    /\ \A a, b \in 1..Len(l) : a # b => l[a].number # l[b].number

\* The program only compares times with each other, so a list stands for all
\* the lists with the same order of instants: its instants are 1..k, no gap.
Instants(l) == ({l[k].merged : k \in 1..Len(l)} \ {NULL}) \cup {l[k].updated : k \in 1..Len(l)}
NoGap(l) == \A t \in Instants(l) : t = 1 \/ (t - 1) \in Instants(l)

Stamps(t) == {s \in [merged : 0..t, updated : 1..t] : s.merged <= s.updated}

\* Every list of at most n pull requests with instants up to t; the pull
\* request at position k has number k.
FreeLists(n, t) ==
    UNION {{l \in {[k \in 1..m |-> [number |-> k, merged |-> f[k].merged,
                                    updated |-> f[k].updated]] :
                     f \in [1..m -> Stamps(t)]} :
              WellFormed(l) /\ NoGap(l)} : m \in 0..n}

\* The five merged pull requests of the worked example, number :> merge time:
\* #10 and #20 are the boundaries, #30 is merged before #10, #40 between the
\* two and #50 after #20.
ExampleMerged == (10 :> 2) @@ (20 :> 4) @@ (30 :> 1) @@ (40 :> 3) @@ (50 :> 5)
ExampleNumbers == DOMAIN ExampleMerged

\* Every list of the five the API may return: each updated at its merge or
\* later, up to MaxUpdate, in every order that update-descending allows.
ExampleLists ==
    LET n == Cardinality(ExampleNumbers)
        orders == {o \in [1..n -> ExampleNumbers] :
                     \A a, b \in 1..n : a # b => o[a] # o[b]}
        updates == {u \in [ExampleNumbers -> 1..MaxUpdate] :
                      \A m \in ExampleNumbers : ExampleMerged[m] <= u[m]}
    IN  {l \in {[k \in 1..n |-> [number |-> o[k], merged |-> ExampleMerged[o[k]],
                                 updated |-> u[o[k]]]] :
                  o \in orders, u \in updates} : WellFormed(l)}

Tokens == {"", "token"}
TagNames == {"", "v1.0.0"}
ReleaseNames == {"", "first"}

\* Runs that pass both usage checks, over every free list: last is the number
\* of a listed pull request or of none (Len(api) + 1), current likewise or
\* unset (0).
Init ==
    /\ Locals
    /\ api \in FreeLists(MaxPRs, MaxTime)
    /\ pageCap \in {SmallPage, PerPage}
    /\ last \in 1..(Len(api) + 1)
    /\ current \in 0..(Len(api) + 1)
    /\ token = "token"
    /\ relnoteFilter \in BOOLEAN
    /\ tagName = "v1.0.0"
    /\ releaseName = "first"

\* Runs with any flags, over the free lists of at most MaxUsagePRs pull requests.
\* Runs over the lists of the worked example, with either of its two oldest
\* pull requests as last and current unset or #20.
InitExample ==
    /\ Locals
    /\ api \in ExampleLists
    /\ pageCap \in {SmallPage, PerPage}
    /\ last \in {10, 30}
    /\ current \in {0, 20}
    /\ token = "token"
    /\ relnoteFilter \in BOOLEAN
    /\ tagName = "v1.0.0"
    /\ releaseName = "first"

InitUsage ==
    /\ Locals
    /\ api \in FreeLists(MaxUsagePRs, MaxTime)
    /\ pageCap \in {SmallPage, PerPage}
    /\ last \in 0..(Len(api) + 1)
    /\ current \in 0..(Len(api) + 1)
    /\ token \in Tokens
    /\ relnoteFilter \in BOOLEAN
    /\ tagName \in TagNames
    /\ releaseName \in ReleaseNames

Spec == Init /\ [][Next]_vars
SpecUsage == InitUsage /\ [][Next]_vars
SpecExample == InitExample /\ [][Next]_vars

\* ------------------------------------------------------------------ claims
Listed(n) == \E p \in Range(api) : p.number = n
MergedOf(n) == IF Listed(n) THEN (CHOOSE p \in Range(api) : p.number = n).merged ELSE NULL
Occurrences(n) == Cardinality({k \in 1..Len(buffer) : buffer[k] = n})
Failed == {k \in 1..Len(calls) : ~calls[k].ok}

\* C1: every line of the note list is for a listed pull request that is
\* merged, strictly after the pull request numbered last and strictly before
\* the one numbered current (both listed and merged); the last, the current
\* and the unmerged pull requests have no line.
C1_OnlyInWindow ==
    \A k \in 1..Len(buffer) :
        LET n == buffer[k] IN
        /\ Listed(n) /\ MergedOf(n) # NULL
        /\ MergedOf(last) # NULL /\ MergedOf(current) # NULL
        /\ MergedOf(last) < MergedOf(n) /\ MergedOf(n) < MergedOf(current)
        /\ n # last /\ n # current

C1_Witness == pc = "exited" /\ exitCode = 0 /\ Len(buffer) >= 1 /\ Len(prs) >= 2

\* C2: in the worked example (last = #10, current = #20, one page, no label
\* filter), a run whose API calls all succeed ends with the notes printed and
\* #40 as their only line.
C2_ExampleOutput ==
    (/\ last = 10 /\ current = 20 /\ ~relnoteFilter /\ pageCap = PerPage
     /\ pc = "exited" /\ Failed = {})
        => printed /\ buffer = <<Line([number |-> 40])>>

\* C3: the lines of the note list are in non-decreasing order of the merge
\* time of their pull requests.
C3_Ordered ==
    \A a, b \in 1..Len(buffer) : a < b => MergedOf(buffer[a]) <= MergedOf(buffer[b])

C3_Witness ==
    /\ printed /\ Len(buffer) >= 3
    /\ MergedOf(buffer[1]) < MergedOf(buffer[3])

\* C4: with the label filter on, every line is for a pull request whose
\* labels were fetched and hold a label named exactly "release-note".
C4_OnlyLabelled ==
    relnoteFilter =>
        \A k \in 1..Len(buffer) :
            \E c \in 1..Len(calls) :
                /\ calls[c].api = "ListLabelsByIssue" /\ calls[c].ok
                /\ calls[c].arg = buffer[k]
                /\ \E l \in 1..Len(calls[c].labels) : calls[c].labels[l] = "release-note"

\* a labelled pull request has its line, an in-window one with another label
\* and one without labels have none
C4_Witness ==
    /\ relnoteFilter /\ printed /\ Len(buffer) = 1
    /\ \E c \in 1..Len(calls) : calls[c].api = "ListLabelsByIssue" /\ calls[c].labels = <<>>
    /\ \E c \in 1..Len(calls) : /\ calls[c].api = "ListLabelsByIssue"
                                /\ calls[c].labels = <<"release-note-none">>

\* C5: a current that is unset when the first non-empty page arrives becomes
\* the number of that page's first item, the page being page 1; a current
\* that is set is never assigned again.
C5_CurrentDefault ==
    [][/\ current # 0 => current' = current
       /\ (/\ current = 0 /\ page' = page + 1
           /\ calls'[Len(calls')].ok /\ List(page') # <<>>)
            => page' = 1 /\ current' = api[1].number]_vars

C5_Witness == shown # NULL /\ page >= 2 /\ pc = "fetch" /\ current = api[1].number

\* C6: with last = 0 or an empty token the process makes no API call and,
\* once past the flag check, has exited with status 1.
C6_UsageExit ==
    (last = 0 \/ token = "") =>
        /\ calls = <<>>
        /\ pc = "parse" \/ (pc = "exited" /\ exitCode = 1)

C6_Witness == pc = "exited" /\ last # 0 /\ token = "" /\ api # <<>>

\* C7 as stated: with tagName or releaseName empty the process ends with the
\* notes block printed, status 1 and no create-release call.
C7_AsStated ==
    ((tagName = "" \/ releaseName = "") /\ pc = "exited") =>
        /\ printed /\ exitCode = 1
        /\ \A c \in 1..Len(calls) : calls[c].api # "CreateRelease"

\* C7, amended: with tagName or releaseName empty there is no create-release
\* call and no exit with status 0; the notes block is printed and the process
\* then exits with status 1, unless the run has ended before: on the usage
\* check of last and token, on a failed API call, or on the nil dereference
\* of the filter loop (status 2).
C7_NoReleaseWithoutNames ==
    (tagName = "" \/ releaseName = "") =>
        /\ \A c \in 1..Len(calls) : calls[c].api # "CreateRelease"
        /\ pc # "release"
        /\ printed => pc = "exited" /\ exitCode = 1
        /\ pc = "exited" => \/ printed /\ exitCode = 1
                            \/ ~printed /\ exitCode = 1 /\ UsageError /\ calls = <<>>
                            \/ ~printed /\ exitCode = 1 /\ Failed = {Len(calls)}
                            \/ ~printed /\ exitCode = 2 /\ ix <= Len(prs)

C7_Witness ==
    /\ tagName = "" /\ releaseName # "" /\ printed /\ pc = "exited" /\ exitCode = 1
    /\ calls # <<>>

\* C8: a failed API call is the last call of the run, and the process has
\* exited with status 1.
C8_FailureIsFinal ==
    \A k \in Failed : k = Len(calls) /\ pc = "exited" /\ exitCode = 1

C8_Witness ==
    /\ pc = "exited" /\ Len(calls) >= 2
    /\ calls[Len(calls)].api = "ListLabelsByIssue" /\ ~calls[Len(calls)].ok

\* C9: whenever the filter loop is about to evaluate a candidate, both
\* boundary merge times are resolved.
C9_BoundariesResolved ==
    (pc = "filter" /\ ix <= Len(prs)) =>
        lastVersionMerged # NULL /\ currentVersionMerged # NULL

\* C10: with the label filter off and both boundaries resolved, once the
\* filter loop has ended every listed pull request merged strictly between
\* the boundaries has exactly one line.
C10_Complete ==
    (/\ ~relnoteFilter /\ printed
     /\ lastVersionMerged # NULL /\ currentVersionMerged # NULL) =>
        \A p \in Range(api) :
            (/\ p.merged # NULL
             /\ Before(lastVersionMerged, p.merged)
             /\ Before(p.merged, currentVersionMerged)) => Occurrences(p.number) = 1

====
